---- MODULE Spec2Model ----
(***************************************************************************)
(* Model of lupyne/client.py: the connection pool (Resources), the shard   *)
(* index (Shards) and the failover replica set (Replicas).                 *)
(*                                                                         *)
(* One caller drives one operation at a time.  A generator returned by     *)
(* Resources.stream is a record of the sequence `streams`; every next() on *)
(* it is one step of the model, and what the network answers to a send or  *)
(* a receive is an input of that step.                                     *)
(***************************************************************************)
EXTENDS Integers, Sequences, FiniteSets, TLC

\* ---- bounds of the model ----
MaxLimit == 2      \* largest `limit` a pool is constructed with
MaxHosts == 2      \* longest explicit `hosts` tuple given to broadcast
MaxRetry == 2      \* largest `retry` given to Replicas.call
MaxThreads == 2    \* threads that use one pool at a time

\* ---- the topology the objects are constructed with ----
HostList == <<"A", "B">>
Hosts == {HostList[i] : i \in 1..Len(HostList)}
Keys == {"x", "y", "z"}
ShardMap == [k \in Keys |->
               CASE k = "x" -> {"A", "B"}
                 [] k = "y" -> {"B"}
                 [] k = "z" -> {"A"}]
Methods == {"GET", "POST"}

\* ---- httplib status codes ----
OK == 200
MULTIPLE_CHOICES == 300
BAD_REQUEST == 400
REQUEST_TIMEOUT == 408
IllegalEnd == "Illegal end of headers."

\* A completed Response: status and cached body.
Resp(s, b) == [status |-> s, body |-> b]
\* The responses a server gives: a successful one, an unsuccessful one, and
\* the two after which the server has torn the connection down.
Responses == {Resp(OK, "{}"), Resp(BAD_REQUEST, "{}"),
              Resp(BAD_REQUEST, IllegalEnd), Resp(REQUEST_TIMEOUT, "{}")}
\* Python's None where a response is expected.
NoResponse == [status |-> 0, body |-> ""]

\* Response.__nonzero__: whether status is successful.
Nonzero(r) == OK <= r.status /\ r.status < MULTIPLE_CHOICES

\* Connection objects.  An id is free while no object carries it; an object
\* that nothing references any more gives its id back (see Collect).
MaxConn == Len(HostList) * (MaxLimit + 1) + MaxHosts + 1
ConnIds == 1..MaxConn
NoConn == 0
NoHost == "-"
FreeConn == [state |-> "free", host |-> NoHost]

\* Priorities are tuples of integers, compared as Python compares tuples;
\* the empty tuple stands for None.
None == <<>>

VARIABLES
  limit,      \* the `limit` the pool was constructed with
  cls,        \* class of the pool: "Resources" or "Replicas"
  queue,      \* host -> idle connections, left end first
  failure,    \* host -> queue.failure (0, or 1 for a time.time() value)
  hosts,      \* Replicas.hosts, the ordered host list
  conns,      \* connection id -> [state, host]
  pc,         \* "idle", "select", "run" or "done"
  kind,       \* the operation in progress
  streams,    \* the generators of the operation, in order
  attempt,    \* round of next() calls being made, 1..3
  idx,        \* stream the next next() goes to
  args,       \* arguments and choices of the operation
  result,     \* what the operation returned or raised
  received,   \* what resource.getresponse() gave Resources.getresponse in
              \* the step just taken (NoResponse after any other step)
  sequential, \* history: the successful requests made one after another
              \* to one host since construction (n = -1: anything else)
  threads     \* thread -> the Replicas.call it is in, when several threads
              \* share the pool

vars == <<limit, cls, queue, failure, hosts, conns, pc, kind, streams,
          attempt, idx, args, result, received, sequential, threads>>

\* ---- helpers ----
Range(s) == {s[i] : i \in 1..Len(s)}
Min(S) == CHOOSE x \in S : \A y \in S : x <= y
RECURSIVE Sum(_, _)
Sum(f, S) == IF S = {} THEN 0
             ELSE LET x == CHOOSE y \in S : TRUE IN f[x] + Sum(f, S \ {x})
\* Sequences over S without repetition that enumerate exactly S.
Orderings(S) == {s \in [1..Cardinality(S) -> S] : Range(s) = S}
\* Tuples of length 1..n over S.
Tuples(S, n) == UNION {[1..k -> S] : k \in 1..n}

\* Python's ordering of two tuples of integers of equal length.
RECURSIVE TupleLess(_, _)
TupleLess(p, q) ==
  IF p = <<>> \/ q = <<>> THEN FALSE
  ELSE IF p[1] # q[1] THEN p[1] < q[1]
  ELSE TupleLess(Tail(p), Tail(q))

\* (append as a plain list would do it: nothing is dropped)
DequeAppendUnbounded(q, c, lim) == Append(q, c)
\* collections.deque(maxlen=lim).append(c): a full deque drops its left
\* end, a deque of maxlen 0 drops c itself.
DequeAppend(q, c, lim) ==
  IF lim = 0 THEN q
  ELSE IF Len(q) >= lim THEN Append(Tail(q), c)
  ELSE Append(q, c)

Queued(qs) == UNION {Range(qs[h]) : h \in Hosts}
\* Objects nothing references are collected when an operation starts, and
\* the objects left, those in the queues, are named anew: 1, 2, ... from the
\* left end of the first host's queue on.  An id is only the name of an
\* object, so this changes nothing the program can observe.
Offset(qs, h) ==
  LET i == CHOOSE j \in 1..Len(HostList) : HostList[j] = h
  IN Sum([j \in 1..Len(HostList) |-> Len(qs[HostList[j]])], 1..(i - 1))
Compact(qs) == [h \in Hosts |-> [j \in 1..Len(qs[h]) |-> Offset(qs, h) + j]]
Collect(cs, qs) ==
  [c \in ConnIds |->
     IF \E h \in Hosts : \E j \in 1..Len(qs[h]) : Offset(qs, h) + j = c
     THEN LET h == CHOOSE g \in Hosts : \E j \in 1..Len(qs[g]) : Offset(qs, g) + j = c
          IN cs[qs[h][c - Offset(qs, h)]]
     ELSE FreeConn]
\* Resource(host): a new connection object.
Fresh(cs) == Min({c \in ConnIds : cs[c].state = "free"})

\* ---- Resources.priority / Replicas.priority ----
ResourcesPriority(host) == << -Len(queue[host]) >>
\* (Replicas.priority as it would be without its test of queue.failure)
ReplicasPriorityNoFailure(host) == << -Len(queue[host]) >>
ReplicasPriority(host) ==
  IF failure[host] = 0 THEN << -Len(queue[host]) >> ELSE None
Priority(host) ==
  IF cls = "Replicas" THEN ReplicasPriority(host) ELSE ResourcesPriority(host)

\* ---- Shards.priority ----
ShardsPriority(combo) ==
  LET priorities == [h \in combo |-> ResourcesPriority(h)]
  IN IF \E h \in combo : priorities[h] = None THEN None
     ELSE << Cardinality(combo), Sum([h \in combo |-> priorities[h][1]], combo) >>

\* ---- Resources.choice (also bound as Shards.choice) ----
\* Given self.priority of every candidate, the candidates random.choice may
\* return: those of the least priority after None is popped.  Empty when
\* min() raises ValueError.
Choice(priority) ==
  LET eligible == {c \in DOMAIN priority : priority[c] # None}
  IN {c \in eligible : \A d \in eligible : ~TupleLess(priority[d], priority[c])}

\* self.choice(hosts) on a Resources or Replicas
\* (as choice would be if it drew from all the hosts given)
ResourcesChoiceAll(cands) == cands
ResourcesChoice(cands) == Choice([h \in cands |-> Priority(h)])
\* self.choice(shards) on a Shards
ShardsChoice(combos) == Choice([combo \in combos |-> ShardsPriority(combo)])

\* ---- Shards.multicast: the combinations built by the loop over keys ----
RECURSIVE Shards(_)
Shards(ks) ==
  IF ks = {} THEN {{}}
  ELSE LET k == CHOOSE x \in ks : TRUE
       IN {combo \cup {h} : combo \in Shards(ks \ {k}), h \in ShardMap[k]}

NoArgs == [cands |-> {}, host |-> NoHost, keys |-> {}, combo |-> {},
           given |-> <<>>, method |-> "-", retry |-> 0, retry0 |-> 0,
           attempts |-> 0, failures |-> 0]
NoResult == [responses |-> <<>>, error |-> "none"]

\* A generator of Resources.stream: its host, the yields it has reached,
\* its local variables resource and response, whether Resources.request
\* made the resource, whether it stands before the second send, and the
\* number of sends it has done.
NewStream(h) == [host |-> h, stage |-> 0, resource |-> NoConn,
                 response |-> NoResponse, fresh |-> FALSE, pending |-> FALSE,
                 sends |-> 0]

\* Threads that share one pool, and a thread that is in no call.
Threads == 1..MaxThreads
NoThread == [pc |-> "idle", method |-> "-", host |-> NoHost,
             resource |-> NoConn, error |-> "none"]

Init ==
  /\ limit \in 0..MaxLimit
  /\ cls \in {"Resources", "Replicas"}
  /\ queue = [h \in Hosts |-> <<>>]
  /\ failure = [h \in Hosts |-> 0]
  /\ hosts = HostList
  /\ conns = [c \in ConnIds |-> FreeConn]
  /\ pc = "idle"
  /\ kind = "none"
  /\ streams = <<>>
  /\ attempt = 0
  /\ idx = 0
  /\ args = NoArgs
  /\ result = NoResult
  /\ received = NoResponse
  /\ sequential = [host |-> NoHost, n |-> 0]
  /\ threads = [t \in Threads |-> NoThread]

\* ---- Resources.request ----
\* (as request would be if it read the left end without removing it, and if
\* it never looked into the queue)
AcquireNoPop(host) ==
  IF queue[host] # <<>>
  THEN [resource |-> Head(queue[host]), queue |-> queue, fresh |-> FALSE]
  ELSE [resource |-> Fresh(conns), queue |-> queue, fresh |-> TRUE]
AcquireNew(host) ==
  [resource |-> Fresh(conns), queue |-> queue, fresh |-> TRUE]
\* self[host].popleft(), or Resource(host) on IndexError.
Acquire(host) ==
  IF queue[host] # <<>>
  THEN [resource |-> Head(queue[host]),
        queue |-> [queue EXCEPT ![host] = Tail(@)], fresh |-> FALSE]
  ELSE [resource |-> Fresh(conns), queue |-> queue, fresh |-> TRUE]

\* ---- Resources.getresponse ----
\* (the test as it would be if only the status 408 were excluded)
ReusableUnless408(r) == r.status # REQUEST_TIMEOUT
\* Whether a received response lets the connection be used again.
Reusable(r) ==
  r.status # REQUEST_TIMEOUT /\ (r.status # BAD_REQUEST \/ r.body # IllegalEnd)
\* What resource.getresponse() can do: return a response or raise.
\* (socket.error stands for a socket.error whose errno is not ECONNRESET)
Exc(e) == [status |-> -1, body |-> e]
Received == Responses \cup {Exc("BadStatusLine"), Exc("ECONNRESET"), Exc("socket.error")}
\* (getresponse as it would be if it swallowed every socket.error)
PropagatesNever(o) == FALSE
\* Whether Resources.getresponse lets the exception out.
Propagates(o) == o = Exc("socket.error")
\* (getresponse as it would be if it appended to the first host's queue
\* whatever its host argument)
ReleaseToFirst(host, resource) ==
  [queue EXCEPT ![HostList[1]] = DequeAppend(@, resource, limit)]
\* self[host].append(resource)
Release(host, resource) ==
  [queue EXCEPT ![host] = DequeAppend(@, resource, limit)]

\* ---- Replicas.call ----
\* The host a call is sent to, as a set: empty when the choice raises.
Target(method) ==
  IF method = "GET" THEN ResourcesChoice(Hosts)
  ELSE IF hosts = <<>> THEN {} ELSE {hosts[1]}
\* The error of an empty Target: min() of nothing, or hosts[0] of nothing.
Exhausted(method) == IF method = "GET" THEN "ValueError" ELSE "IndexError"
\* (the test as it would be if `retry` were not looked at)
ReturnsOnlySuccess(response, retry) == Nonzero(response)
\* response if (response or not retry) else self.call(..., retry=retry-1)
Returns(response, retry) == Nonzero(response) \/ retry = 0
\* except socket.error
Caught(err) == err = "socket.error"
\* self[host].failure = time.time()
\* (and the handler as it would be without that line)
MarkedNever(host) == failure
Marked(host) == [failure EXCEPT ![host] = 1]
\* (the handler as it would be without the del, and with a del for every
\* method)
FailoverNever(method) == hosts
FailoverAlways(method) == IF hosts = <<>> THEN hosts ELSE Tail(hosts)
\* del self.hosts[0], for mutating methods only
Failover(method) == IF method # "GET" THEN Tail(hosts) ELSE hosts

\* ---- history ----
Broken == [host |-> NoHost, n |-> -1]
Served(s) ==
  IF /\ kind = "unicast" /\ Nonzero(s.response) /\ s.sends = 1
     /\ sequential.n \in 0..2
     /\ sequential.host \in {NoHost, s.host}
  THEN [host |-> s.host, n |-> sequential.n + 1]
  ELSE Broken

\* ---- how an operation goes on after a next() ----
\* The operation's last next() returned: unicast and broadcast return, call
\* returns or calls itself again.
Finish ==
  /\ attempt' = attempt /\ idx' = idx
  /\ UNCHANGED <<failure, hosts>>
  /\ sequential' = Served(streams'[1])
  /\ IF kind = "call"
     THEN LET response == streams'[1].response
          IN IF Returns(response, args.retry)
             THEN /\ pc' = "done"
                  /\ result' = [responses |-> <<response>>, error |-> "none"]
                  /\ args' = [args EXCEPT !.attempts = @ + 1]
             ELSE /\ pc' = "select"
                  /\ result' = result
                  /\ args' = [args EXCEPT !.attempts = @ + 1, !.retry = @ - 1]
     ELSE /\ pc' = "done"
          /\ args' = args
          /\ result' = [responses |-> [i \in 1..Len(streams) |-> streams'[i].response],
                        error |-> "none"]

\* (a broadcast that would run each generator to its end before it starts
\* the next one)
AdvanceEachInTurn ==
  IF attempt < 3
  THEN /\ attempt' = attempt + 1
       /\ UNCHANGED <<pc, idx, args, result, failure, hosts, sequential>>
  ELSE IF idx < Len(streams)
  THEN /\ idx' = idx + 1 /\ attempt' = 1
       /\ UNCHANGED <<pc, args, result, failure, hosts, sequential>>
  ELSE Finish

\* next() returned and more next() calls follow.
Advance ==
  IF idx < Len(streams)
  THEN /\ idx' = idx + 1
       /\ UNCHANGED <<pc, attempt, args, result, failure, hosts, sequential>>
  ELSE IF attempt < 3
  THEN /\ idx' = 1 /\ attempt' = attempt + 1
       /\ UNCHANGED <<pc, args, result, failure, hosts, sequential>>
  ELSE Finish

\* next() raised err.
Raise(err) ==
  /\ attempt' = attempt /\ idx' = idx
  /\ sequential' = Broken
  /\ IF kind = "call" /\ Caught(err)
     THEN /\ failure' = Marked(args.host)
          /\ hosts' = Failover(args.method)
          /\ pc' = "select"
          /\ args' = [args EXCEPT !.failures = @ + 1]
          /\ result' = result
     ELSE /\ pc' = "done"
          /\ result' = [responses |-> <<>>, error |-> err]
          /\ UNCHANGED <<failure, hosts, args>>

\* ---- Resources.stream, one action per next() ----
\* resource = self.request(host, method, path, body); yield
StreamRequest ==
  /\ pc = "run" /\ attempt = 1
  /\ LET s == streams[idx]
         a == Acquire(s.host)
     IN /\ queue' = a.queue
        /\ conns' = IF a.fresh
                    THEN [conns EXCEPT ![a.resource] = [state |-> "open", host |-> s.host]]
                    ELSE [conns EXCEPT ![a.resource].state = "open"]
        /\ \E sent \in BOOLEAN :
             IF sent
             THEN /\ streams' = [streams EXCEPT ![idx] =
                        [s EXCEPT !.stage = 1, !.resource = a.resource,
                                  !.fresh = a.fresh, !.sends = 1]]
                  /\ Advance
             ELSE /\ streams' = streams
                  /\ Raise("socket.error")
  /\ received' = NoResponse
  /\ UNCHANGED <<threads, limit, cls, kind>>

\* response = self.getresponse(host, resource)
\* and, unless response is None, the second yield
StreamGetResponse ==
  /\ pc = "run" /\ attempt = 2
  /\ ~streams[idx].pending
  /\ LET s == streams[idx]
     IN \E o \in Received :
          /\ received' = o
          /\ IF o \in Responses /\ Reusable(o)
             THEN /\ queue' = Release(s.host, s.resource)
                  /\ conns' = conns
                  /\ streams' = [streams EXCEPT ![idx] =
                        [s EXCEPT !.stage = 2, !.response = o]]
                  /\ Advance
             ELSE IF Propagates(o)
             THEN /\ UNCHANGED <<queue, conns, streams>>
                  /\ Raise("socket.error")
             ELSE \* resource.close(), and None is returned
                  /\ queue' = queue
                  /\ conns' = [conns EXCEPT ![s.resource].state = "closed"]
                  /\ streams' = [streams EXCEPT ![idx] = [s EXCEPT !.pending = TRUE]]
                  /\ UNCHANGED <<pc, attempt, idx, args, result, failure, hosts,
                                 sequential>>
  /\ UNCHANGED <<threads, limit, cls, kind>>

\* if response is None: resource.request(method, path, body)
\* yield
StreamResend ==
  /\ pc = "run" /\ attempt = 2
  /\ streams[idx].pending
  /\ LET s == streams[idx]
     IN \E sent \in BOOLEAN :
          IF sent
          THEN /\ conns' = [conns EXCEPT ![s.resource].state = "open"]
               /\ streams' = [streams EXCEPT ![idx] =
                     [s EXCEPT !.stage = 2, !.pending = FALSE, !.sends = @ + 1]]
               /\ Advance
          ELSE /\ conns' = conns
               /\ streams' = streams
               /\ Raise("socket.error")
  /\ received' = NoResponse
  /\ UNCHANGED <<threads, limit, cls, kind, queue>>

\* if response is None: response = resource.getresponse()
\* yield response
StreamFinal ==
  /\ pc = "run" /\ attempt = 3
  /\ LET s == streams[idx]
     IN IF s.response # NoResponse
        THEN /\ streams' = [streams EXCEPT ![idx] = [s EXCEPT !.stage = 3]]
             /\ Advance
        ELSE \E o \in Received :
               IF o \in Responses
               THEN /\ streams' = [streams EXCEPT ![idx] =
                          [s EXCEPT !.stage = 3, !.response = o]]
                    /\ Advance
               ELSE /\ streams' = streams
                    /\ Raise(IF o = Exc("BadStatusLine") THEN "BadStatusLine" ELSE "socket.error")
  /\ received' = NoResponse
  /\ UNCHANGED <<threads, limit, cls, kind, queue, conns>>

\* ---- the operations a caller starts ----
Ready == pc = "idle"

\* What every operation sets out from: no result yet.
Start(k, ss, a) ==
  /\ kind' = k
  /\ streams' = ss
  /\ args' = a
  /\ attempt' = 1 /\ idx' = 1
  /\ received' = NoResponse
  /\ UNCHANGED <<threads, limit, cls, queue, conns, failure, hosts>>

\* The caller has the result (or the exception) of the operation; its
\* generators and the connections only they referred to are gone.
Return ==
  /\ pc = "done"
  /\ pc' = "idle"
  /\ kind' = "none"
  /\ streams' = <<>>
  /\ args' = NoArgs
  /\ result' = NoResult
  /\ attempt' = 0 /\ idx' = 0
  /\ conns' = Collect(conns, queue)
  /\ queue' = Compact(queue)
  /\ received' = NoResponse
  /\ UNCHANGED <<threads, limit, cls, failure, hosts, sequential>>

\* tuple(hosts) or self
HostsOrSelf(given) == IF given = <<>> THEN HostList ELSE given

\* Resources.unicast(method, path, body, hosts)
Unicast ==
  /\ Ready
  /\ \E given \in SUBSET Hosts :
       LET cands == IF given = {} THEN Hosts ELSE given
           a == [NoArgs EXCEPT !.cands = cands]
       IN IF ResourcesChoice(cands) = {}
          THEN /\ Start("unicast", <<>>, a)
               /\ pc' = "done"
               /\ result' = [responses |-> <<>>, error |-> "ValueError"]
               /\ sequential' = Broken
          ELSE \E host \in ResourcesChoice(cands) :
                 /\ Start("unicast", <<NewStream(host)>>, [a EXCEPT !.host = host])
                 /\ pc' = "run"
                 /\ result' = NoResult
                 /\ sequential' = sequential

\* Resources.broadcast(method, path, body, hosts)
BroadcastTo(k, given, a) ==
  LET to == HostsOrSelf(given)
  IN /\ Start(k, [i \in 1..Len(to) |-> NewStream(to[i])], [a EXCEPT !.given = given])
     /\ pc' = "run"
     /\ result' = NoResult
     /\ sequential' = Broken

Broadcast ==
  /\ Ready
  /\ \E given \in Tuples(Hosts, MaxHosts) \cup {<<>>} :
       BroadcastTo("broadcast", given, NoArgs)

\* Shards.multicast(keys, method, path, body), on a Shards whose resources
\* are this pool
Multicast ==
  /\ Ready
  /\ cls = "Resources"
  /\ \E keys \in SUBSET Keys :
       \E combo \in ShardsChoice(Shards(keys)) :
         \E given \in Orderings(combo) :
           BroadcastTo("multicast", given, [NoArgs EXCEPT !.keys = keys, !.combo = combo])

\* Replicas.call(method, path, body, params, retry)
Call ==
  /\ Ready
  /\ cls = "Replicas"
  /\ \E method \in Methods, retry \in 0..MaxRetry :
       /\ Start("call", <<>>, [NoArgs EXCEPT !.method = method, !.retry = retry,
                                              !.retry0 = retry])
       /\ pc' = "select"
       /\ result' = NoResult
       /\ sequential' = Broken

\* host = self.choice(self) if method == 'GET' else self.hosts[0], in the
\* first call and in every call of call by itself
CallSelect ==
  /\ pc = "select"
  /\ IF Target(args.method) = {}
     THEN /\ pc' = "done"
          /\ result' = [responses |-> <<>>, error |-> Exhausted(args.method)]
          /\ UNCHANGED <<streams, args, attempt, idx>>
     ELSE \E host \in Target(args.method) :
            /\ pc' = "run"
            /\ streams' = <<NewStream(host)>>
            /\ args' = [args EXCEPT !.host = host, !.cands = Hosts]
            /\ attempt' = 1 /\ idx' = 1
            /\ result' = result
  /\ received' = NoResponse
  /\ UNCHANGED <<threads, limit, cls, queue, failure, hosts, conns, kind,
                 sequential>>

\* ---- Replicas.call in several threads ----
\* Each thread runs call with the default retry=False; a step is what a
\* thread does between two points where it can be preempted: the choice of
\* the host, each send, each receive, the except branch.
Held(ts) == {ts[t].resource : t \in Threads} \ {NoConn}
\* Connection objects that no queue and no thread refers to are collected.
Sweep(cs, qs, ts) ==
  [c \in ConnIds |-> IF c \in Queued(qs) \cup Held(ts) THEN cs[c] ELSE FreeConn]
OnlyThreads ==
  UNCHANGED <<limit, cls, pc, kind, streams, attempt, idx, args, result,
              received, sequential>>

\* The call returns (error = "none") or raises.
ThreadEnds(t, err) ==
  threads' = [threads EXCEPT ![t] = [NoThread EXCEPT !.pc = "done", !.error = err]]

\* except socket.error: self[host].failure = time.time(); del self.hosts[0]
\* unless the method is GET; return self.call(...)
ThreadRaise(t) ==
  LET th == threads[t]
  IN /\ failure' = Marked(th.host)
     /\ IF th.method # "GET" /\ hosts = <<>>
        THEN /\ hosts' = hosts
             /\ ThreadEnds(t, "IndexError")
        ELSE /\ hosts' = Failover(th.method)
             /\ threads' = [threads EXCEPT ![t] =
                   [th EXCEPT !.pc = "select", !.host = NoHost, !.resource = NoConn]]

\* A thread enters call(method, path).
ThreadCall ==
  \E t \in Threads, method \in Methods :
    /\ threads[t].pc = "idle"
    /\ threads' = [threads EXCEPT ![t] = [NoThread EXCEPT !.pc = "select", !.method = method]]
    /\ UNCHANGED <<queue, conns, failure, hosts>>
    /\ OnlyThreads

\* host = self.choice(self) if method == 'GET' else self.hosts[0]
ThreadSelect ==
  \E t \in Threads :
    /\ threads[t].pc = "select"
    /\ IF Target(threads[t].method) = {}
       THEN ThreadEnds(t, Exhausted(threads[t].method))
       ELSE \E host \in Target(threads[t].method) :
              threads' = [threads EXCEPT ![t].pc = "request", ![t].host = host]
    /\ UNCHANGED <<queue, conns, failure, hosts>>
    /\ OnlyThreads

\* resource = self.request(host, method, path, body)
ThreadRequest ==
  \E t \in Threads :
    /\ threads[t].pc = "request"
    /\ LET th == threads[t]
           a == Acquire(th.host)
           cs == IF a.fresh
                 THEN [conns EXCEPT ![a.resource] = [state |-> "open", host |-> th.host]]
                 ELSE [conns EXCEPT ![a.resource].state = "open"]
       IN /\ queue' = a.queue
          /\ \E sent \in BOOLEAN :
               IF sent
               THEN /\ threads' = [threads EXCEPT ![t].pc = "receive",
                                                   ![t].resource = a.resource]
                    /\ UNCHANGED <<failure, hosts>>
               ELSE ThreadRaise(t)
          /\ conns' = Sweep(cs, queue', threads')
    /\ OnlyThreads

\* response = self.getresponse(host, resource)
ThreadReceive ==
  \E t \in Threads :
    /\ threads[t].pc = "receive"
    /\ LET th == threads[t]
       IN \E o \in Received :
            IF o \in Responses /\ Reusable(o)
            THEN /\ queue' = Release(th.host, th.resource)
                 /\ ThreadEnds(t, "none")
                 /\ conns' = Sweep(conns, queue', threads')
                 /\ UNCHANGED <<failure, hosts>>
            ELSE IF Propagates(o)
            THEN /\ queue' = queue
                 /\ ThreadRaise(t)
                 /\ conns' = Sweep(conns, queue', threads')
            ELSE /\ queue' = queue
                 /\ conns' = [conns EXCEPT ![th.resource].state = "closed"]
                 /\ threads' = [threads EXCEPT ![t].pc = "resend"]
                 /\ UNCHANGED <<failure, hosts>>
    /\ OnlyThreads

\* if response is None: resource.request(method, path, body)
ThreadResend ==
  \E t \in Threads :
    /\ threads[t].pc = "resend"
    /\ \E sent \in BOOLEAN :
         IF sent
         THEN /\ threads' = [threads EXCEPT ![t].pc = "final"]
              /\ conns' = [conns EXCEPT ![threads[t].resource].state = "open"]
              /\ UNCHANGED <<failure, hosts>>
         ELSE /\ ThreadRaise(t)
              /\ conns' = Sweep(conns, queue, threads')
    /\ queue' = queue
    /\ OnlyThreads

\* if response is None: response = resource.getresponse()
ThreadFinal ==
  \E t \in Threads :
    /\ threads[t].pc = "final"
    /\ \E o \in Received :
         IF o \in Responses
         THEN ThreadEnds(t, "none") /\ UNCHANGED <<failure, hosts>>
         ELSE IF o = Exc("BadStatusLine")
         THEN ThreadEnds(t, "BadStatusLine") /\ UNCHANGED <<failure, hosts>>
         ELSE ThreadRaise(t)
    /\ conns' = Sweep(conns, queue, threads')
    /\ queue' = queue
    /\ OnlyThreads

\* The caller has the result of its call.
ThreadReturn ==
  \E t \in Threads :
    /\ threads[t].pc = "done"
    /\ threads' = [threads EXCEPT ![t] = NoThread]
    /\ UNCHANGED <<queue, conns, failure, hosts>>
    /\ OnlyThreads

Next ==
  \/ Unicast
  \/ Broadcast
  \/ Multicast
  \/ Call
  \/ CallSelect
  \/ StreamRequest
  \/ StreamGetResponse
  \/ StreamResend
  \/ StreamFinal
  \/ Return

Spec == Init /\ [][Next]_vars

\* A pool of class Resources, also as the resources of a Shards.
InitResources == Init /\ cls = "Resources"
NextResources ==
  \/ Unicast
  \/ Broadcast
  \/ Multicast
  \/ StreamRequest
  \/ StreamGetResponse
  \/ StreamResend
  \/ StreamFinal
  \/ Return
SpecResources == InitResources /\ [][NextResources]_vars

\* A Replicas used through call (get, post, put, delete) and unicast.
InitReplicas == Init /\ cls = "Replicas"
NextReplicas ==
  \/ Unicast
  \/ Call
  \/ CallSelect
  \/ StreamRequest
  \/ StreamGetResponse
  \/ StreamResend
  \/ StreamFinal
  \/ Return
SpecReplicas == InitReplicas /\ [][NextReplicas]_vars

\* A Replicas whose call is used by several threads at a time.
NextConcurrent ==
  \/ ThreadCall
  \/ ThreadSelect
  \/ ThreadRequest
  \/ ThreadReceive
  \/ ThreadResend
  \/ ThreadFinal
  \/ ThreadReturn
SpecConcurrent == InitReplicas /\ [][NextConcurrent]_vars

TypeOK ==
  /\ limit \in 0..MaxLimit
  /\ \A h \in Hosts : Range(queue[h]) \subseteq ConnIds
  /\ pc \in {"idle", "select", "run", "done"}
  /\ \A t \in Threads :
       threads[t].pc \in {"idle", "select", "request", "receive", "resend",
                          "final", "done"}

\* ---- what the claims speak of ----
StreamSet == {streams[i] : i \in 1..Len(streams)}
\* A pipeline that has sent and not yet let go of its connection.
Holding(s) == s.stage = 1 \/ s.pending \/ (s.stage = 2 /\ s.response = NoResponse)
NoDuplicates(q) == \A i, j \in 1..Len(q) : q[i] = q[j] => i = j

\* C1: every host's idle queue holds at most `limit` connections, and with
\* limit = 0 every request that was sent went out on a connection made for it.
C1_QueueWithinLimit ==
  /\ \A h \in Hosts : Len(queue[h]) <= limit
  /\ limit = 0 =>
       /\ \A h \in Hosts : queue[h] = <<>>
       /\ \A s \in StreamSet : s.stage >= 1 => s.fresh

\* Two pipelines of one broadcast to the same host have both released their
\* connection onto a queue of limit 1.
C1_Witness ==
  /\ limit = 1 /\ kind = "broadcast" /\ Len(streams) = 2
  /\ streams[1].host = streams[2].host
  /\ streams[1].stage = 2 /\ streams[2].stage = 2
  /\ streams[1].response # NoResponse /\ streams[2].response # NoResponse
  /\ Len(queue[streams[1].host]) = 1

\* C2: a connection is held by at most one pipeline, is in no queue while a
\* pipeline holds it, and is at most once in at most one queue.
C2_ExclusiveOwnership ==
  /\ \A i, j \in 1..Len(streams) :
       (i # j /\ Holding(streams[i]) /\ Holding(streams[j]))
         => streams[i].resource # streams[j].resource
  /\ \A s \in StreamSet : Holding(s) => s.resource \notin Queued(queue)
  /\ \A h \in Hosts : NoDuplicates(queue[h])
  /\ \A g, h \in Hosts : g # h => Range(queue[g]) \cap Range(queue[h]) = {}

\* Two pipelines of one operation hold connections to the same host at
\* once, the first taken from the queue, the second made and about to resend.
C2_Witness ==
  /\ pc = "run" /\ Len(streams) >= 2
  /\ streams[1].host = streams[2].host
  /\ Holding(streams[1]) /\ Holding(streams[2])
  /\ ~streams[1].fresh /\ streams[2].fresh /\ streams[2].pending

\* C3: Resources.getresponse returns the response and appends the connection
\* to the host's queue (a deque of maxlen `limit`) exactly when a response
\* came whose status is not 408 and that is not a 400 with the body 'Illegal
\* end of headers.'; for 408, for that 400, for a connection reset and for a
\* bad status line it leaves the queue as it was, closes the connection and
\* returns None.
C3_Step ==
  (pc = "run" /\ attempt = 2 /\ received' # NoResponse) =>
    LET s == streams[idx]
        t == streams'[idx]
        q == queue[s.host]
        r == queue'[s.host]
        o == received'
    IN IF o.status > 0 /\ o.status # 408 /\ ~(o.status = 400 /\ o.body = "Illegal end of headers.")
       THEN /\ t.response = o
            /\ conns'[s.resource].state = "open"
            /\ \A h \in Hosts \ {s.host} : queue'[h] = queue[h]
            /\ IF limit = 0 THEN r = q
               ELSE /\ r[Len(r)] = s.resource
                    /\ Len(r) = (IF Len(q) < limit THEN Len(q) + 1 ELSE limit)
       ELSE IF o \in {Resp(408, "{}"), Resp(400, "Illegal end of headers."),
                      Exc("ECONNRESET"), Exc("BadStatusLine")}
       THEN /\ queue' = queue
            /\ conns'[s.resource].state = "closed"
            /\ t.response = NoResponse
       ELSE o = Exc("socket.error")
C3_Release == [][C3_Step]_vars

\* A 408 has just been received on a connection of a host with an idle
\* connection: the connection is closed and the pipeline has no response.
C3_Witness ==
  /\ pc = "run" /\ received = Resp(408, "{}")
  /\ streams[idx].pending /\ streams[idx].response = NoResponse
  /\ conns[streams[idx].resource].state = "closed"
  /\ Len(queue[streams[idx].host]) = 1

\* C4 as stated: with limit = 2, three successful requests to one host, each
\* completed before the next starts, leave 2 idle connections in its queue.
C4_Original ==
  (sequential.n = 3 /\ limit = 2 /\ pc = "done")
    => Len(queue[sequential.host]) = 2

\* C4 as amended: they leave exactly 1 idle connection, the one connection
\* every one of the three requests used; no other connection was made and
\* none was closed.
C4_Amended ==
  (sequential.n = 3 /\ limit = 2 /\ pc = "done") =>
    /\ Len(queue[sequential.host]) = 1
    /\ queue[sequential.host][1] = streams[1].resource
    /\ ~streams[1].fresh
    /\ \A h \in Hosts \ {sequential.host} : queue[h] = <<>>
    /\ \A c \in ConnIds :
         conns[c].state # "free" => c = streams[1].resource /\ conns[c].state = "open"

\* The third of three such requests has returned.
C4_Witness ==
  /\ sequential.n = 3 /\ limit = 2 /\ pc = "done" /\ kind = "unicast"
  /\ Nonzero(result.responses[1])

\* C5: the priority of a host without failure timestamp, and of every host
\* of a plain Resources, is minus the length of its idle queue; that of a
\* Replicas host with a failure timestamp is None.
C5_Priority ==
  \A h \in Hosts :
    IF cls = "Replicas" /\ failure[h] # 0
    THEN Priority(h) = <<>>
    ELSE Priority(h) = << 0 - Len(queue[h]) >>

\* A Replicas host with a failure timestamp and an idle connection.
C5_Witness ==
  \E h \in Hosts :
    cls = "Replicas" /\ failure[h] # 0 /\ Len(queue[h]) > 0 /\ Priority(h) = None

\* C6: the host Resources.choice returns is a candidate whose priority is
\* not None and is the least among the candidates whose priority is not
\* None; choice raises only if there is no such candidate; and every
\* candidate of that least priority can be the one returned.
IsBest(h, cands) ==
  /\ h \in cands /\ Priority(h) # None
  /\ \A c \in cands : Priority(c) # None => Priority(h)[1] <= Priority(c)[1]
Chosen ==
  /\ pc = "run" /\ attempt = 1 /\ idx = 1
  /\ kind = "unicast" \/ (kind = "call" /\ args.method = "GET")
C6_Choice ==
  /\ Chosen => IsBest(args.host, args.cands) /\ streams[1].host = args.host
  /\ (pc = "done" /\ kind = "unicast" /\ result.error = "ValueError")
       => \A c \in args.cands : Priority(c) = None
  /\ pc = "idle" =>
       \A given \in SUBSET Hosts : \A h \in given :
         IsBest(h, given) => ENABLED (Unicast /\ args'.cands = given /\ args'.host = h)

\* Of two candidates the one with more idle connections has a failure
\* timestamp, and the other one is chosen.
C6_Witness ==
  /\ Chosen /\ kind = "unicast" /\ args.cands = Hosts
  /\ \E h \in Hosts : /\ failure[h] # 0
                        /\ Len(queue[h]) > Len(queue[args.host])
  /\ failure[args.host] = 0

\* C7: the hosts Shards.multicast(keys) broadcasts to cover the batch, no
\* covering set has fewer hosts, and no covering set of as many hosts has
\* more idle connections in total.
Covers(ks, T) == \A k \in ks : ShardMap[k] \cap T # {}
Idle(T) == Sum([h \in Hosts |-> Len(queue[h])], T)
Multicasting == kind = "multicast" /\ pc = "run" /\ attempt = 1 /\ idx = 1
MinimalCover(ks, to) ==
  /\ Covers(ks, to)
  /\ \A T \in SUBSET Hosts :
       Covers(ks, T) =>
         \/ Cardinality(T) > Cardinality(to)
         \/ Cardinality(T) = Cardinality(to) /\ Idle(T) <= Idle(to)
C7_Original ==
  Multicasting => MinimalCover(args.keys, {s.host : s \in StreamSet})

\* What does hold of multicast: the combination self.choice returns is such a
\* set, and the broadcast goes to it unless the batch is empty.
C7_Combination ==
  Multicasting =>
    /\ MinimalCover(args.keys, args.combo)
    /\ args.keys # {} => {s.host : s \in StreamSet} = args.combo

\* C8: every write of Replicas.call goes to the head of the host list; when
\* it fails with a transport error the head is removed and gets a failure
\* timestamp, and a host once removed is never in the list again, so never
\* the target of a write again.
Write == kind = "call" /\ args.method # "GET"
Removed == Hosts \ Range(hosts)
C8_State ==
  (Write /\ pc = "run") =>
    /\ hosts # <<>>
    /\ streams[1].host = hosts[1]
    /\ streams[1].host \notin Removed
C8_Step ==
  /\ (Write /\ pc = "run" /\ args'.failures = args.failures + 1) =>
       /\ hosts' = Tail(hosts)
       /\ streams[1].host \notin Range(hosts')
       /\ failure'[streams[1].host] # 0
       /\ pc' = "select"
  /\ Range(hosts') \subseteq Range(hosts)
C8_WritesToHead == []C8_State /\ [][C8_Step]_vars

\* After a write to A failed, the write is on its way to B, now the head.
C8_Witness ==
  /\ Write /\ pc = "run" /\ args.failures = 1
  /\ hosts = <<"B">> /\ streams[1].host = "B" /\ streams[1].stage = 1
  /\ failure["A"] # 0

\* C9: Replicas.call with retry = n completes at most n + 1 attempts; it
\* returns the first successful response at once, and the last response when
\* n + 1 attempts were unsuccessful; an attempt that ends in a transport
\* error takes nothing from the budget.
C9_State ==
  kind = "call" =>
    /\ args.attempts <= args.retry0 + 1
    /\ pc \in {"select", "run"} => args.retry = args.retry0 - args.attempts
    /\ (pc = "done" /\ result.error = "none") =>
         /\ result.responses = <<streams[1].response>>
         /\ streams[1].stage = 3
         /\ Nonzero(result.responses[1]) \/ args.attempts = args.retry0 + 1
C9_Step ==
  (kind = "call" /\ pc = "run" /\ args'.attempts = args.attempts + 1) =>
    LET response == streams'[1].response
    IN IF (200 <= response.status /\ response.status < 300) \/ args.attempts = args.retry0
       THEN pc' = "done" /\ result' = [responses |-> <<response>>, error |-> "none"]
       ELSE pc' = "select" /\ result'.responses = <<>>
C9_RetryBudget == []C9_State /\ [][C9_Step]_vars

\* retry = 2, two unsuccessful responses and then a successful one, which
\* is returned.
C9_Witness ==
  /\ kind = "call" /\ pc = "done" /\ args.retry0 = 2 /\ args.attempts = 3
  /\ args.failures = 0
  /\ result.error = "none" /\ result.responses[1].status = 200

\* C10: a Replicas.call ends with a response or with the error of having no
\* host left (ValueError of choice, IndexError of hosts[0]), after at most as
\* many transport failures as there are hosts.
C10_Original ==
  kind = "call" =>
    /\ args.failures <= Cardinality(Hosts)
    /\ pc = "done" => result.error \in {"none", "ValueError", "IndexError"}

\* What does hold of call: the failures are bounded and a call never stands
\* still; it can also end with the BadStatusLine of its last receive.
C10_Bounded ==
  kind = "call" =>
    /\ args.failures <= Cardinality(Hosts)
    /\ args.attempts <= args.retry0 + 1
    /\ pc # "done" => ENABLED Next
    /\ pc = "done" => result.error \in {"none", "ValueError", "IndexError", "BadStatusLine"}

\* The hosts a broadcast was asked to reach, in the order of the request.
Requested == HostsOrSelf(args.given)

\* C11: within one broadcast the pipelines advance in lockstep and in the
\* order of the hosts: while round n runs, the pipelines before the current
\* one have finished stage n and all others stand at stage n - 1, so every
\* send precedes every receive and every receive precedes every final
\* stage; the result has one response per requested host, the i-th from the
\* i-th host.
C11_Lockstep ==
  kind \in {"broadcast", "multicast"} =>
    /\ Len(streams) = Len(Requested)
    /\ \A i \in 1..Len(streams) : streams[i].host = Requested[i]
    /\ pc = "run" =>
         \A i \in 1..Len(streams) :
           streams[i].stage = IF i < idx THEN attempt ELSE attempt - 1
    /\ \A i, j \in 1..Len(streams) :
         streams[j].stage >= 2 => streams[i].stage >= 1 /\ streams[i].sends >= 1
    /\ \A i, j \in 1..Len(streams) :
         streams[j].stage = 3 => streams[i].stage >= 2
    /\ (pc = "done" /\ result.error = "none") =>
         /\ Len(result.responses) = Len(Requested)
         /\ \A i \in 1..Len(streams) :
              /\ streams[i].stage = 3
              /\ result.responses[i] = streams[i].response
              /\ result.responses[i] \in Responses
              /\ conns[streams[i].resource].host = Requested[i]

\* A broadcast to B and then A in its second round: B has received, A has
\* sent and not yet received.
C11_Witness ==
  /\ kind = "broadcast" /\ pc = "run" /\ args.given = <<"B", "A">>
  /\ attempt = 2 /\ idx = 2
  /\ streams[1].host = "B" /\ streams[1].stage = 2
  /\ streams[2].host = "A" /\ streams[2].stage = 1 /\ streams[2].sends = 1

\* The outcomes of the stage-2 receive after which the connection is closed
\* and no response is returned: a reset, a bad status line, a 408, a 400
\* with the body 'Illegal end of headers.'.
Indeterminate ==
  {Exc("ECONNRESET"), Exc("BadStatusLine"),
   Resp(REQUEST_TIMEOUT, "{}"), Resp(BAD_REQUEST, IllegalEnd)}

C12_State ==
  \A i \in 1..Len(streams) :
    LET s == streams[i]
    IN /\ s.sends \in 0..2
       /\ s.sends = 0 <=> s.stage = 0
       /\ s.pending => /\ s.sends = 1 /\ s.stage = 1 /\ s.response = NoResponse
                       /\ i = idx /\ attempt = 2
                       /\ pc = "run" => ENABLED StreamResend
       /\ s.sends = 2 => s.stage >= 2
       /\ (s.stage = 2 /\ s.sends = 1) => s.response \in Responses \ Indeterminate
       /\ (s.stage = 2 /\ s.sends = 2) => s.response = NoResponse
       /\ s.stage = 3 => s.response \in Responses

C12_Step ==
  pc = "run" =>
    /\ Len(streams') = Len(streams)
    /\ \A i \in 1..Len(streams) :
         /\ streams'[i].sends # streams[i].sends =>
              /\ i = idx
              /\ \/ attempt = 1 /\ streams[i].sends = 0 /\ streams'[i].sends = 1
                 \/ streams[i].pending /\ streams[i].sends = 1 /\ streams'[i].sends = 2
         /\ streams[i].resource # NoConn => streams'[i].resource = streams[i].resource
    \* the receive of stage 2: no response exactly for the four outcomes
    /\ (attempt = 2 /\ received' # NoResponse /\ received' # Exc("socket.error")) =>
         /\ streams'[idx].pending <=> received' \in Indeterminate
         /\ streams'[idx].pending <=> streams'[idx].response = NoResponse
         /\ streams'[idx].pending => pc' = "run"
         /\ streams'[idx].sends = 1
    \* the resend: once, on the same connection, reopened
    /\ (streams[idx].pending /\ streams' # streams) =>
         /\ streams'[idx] = [streams[idx] EXCEPT !.stage = 2, !.pending = FALSE,
                                                  !.sends = 2]
         /\ conns'[streams[idx].resource] = [state |-> "open", host |-> streams[idx].host]
    \* ... and a resend that cannot be sent ends the pipeline
    /\ (streams[idx].pending /\ streams' = streams) => pc' # "run"
    \* the final receive: its response is yielded whatever it is, its error
    \* ends the pipeline, and nothing is sent again
    /\ (attempt = 3 /\ streams[idx].sends = 2) =>
         /\ streams[idx].response = NoResponse
         /\ \/ /\ streams'[idx] = [streams[idx] EXCEPT !.stage = 3,
                                                       !.response = streams'[idx].response]
               /\ streams'[idx].response \in Responses
            \/ /\ streams' = streams
               /\ IF kind = "call"
                  THEN \/ pc' = "select" /\ args'.failures = args.failures + 1
                       \/ pc' = "done" /\ result'.error = "BadStatusLine"
                  ELSE pc' = "done" /\ result'.error \in {"socket.error", "BadStatusLine"}

\* C12: a pipeline sends its request again exactly when its stage-2 receive
\* gave no response (reset, bad status line, 408, 400 'Illegal end of
\* headers.'); it does so once, on the same connection; it sends once or
\* twice and never more; the receive after the resend yields its response
\* whatever it is, and its error ends the pipeline without another send.
C12_ResendOnce == []C12_State /\ [][C12_Step]_vars

\* A unicast whose first receive gave no response: the request was sent
\* twice on one connection and the 408 of the second receive is the result.
C12_Witness ==
  /\ kind = "unicast" /\ pc = "done" /\ result.error = "none"
  /\ streams[1].sends = 2 /\ streams[1].stage = 3
  /\ result.responses = <<Resp(REQUEST_TIMEOUT, "{}")>>

\* The step in which call catches the socket.error of its pipeline.
TransportError ==
  kind = "call" /\ pc = "run" /\ args'.failures = args.failures + 1

C13_Step ==
  /\ hosts' # hosts =>
       /\ TransportError /\ args.method # "GET"
       /\ hosts # <<>> /\ hosts' = Tail(hosts)
       /\ streams[1].host = hosts[1]
  /\ failure' # failure =>
       /\ TransportError
       /\ \A h \in Hosts \ {streams[1].host} : failure'[h] = failure[h]
  /\ TransportError => failure'[streams[1].host] # 0
  /\ (TransportError /\ args.method = "GET") => hosts' = hosts
  /\ (kind = "call" /\ pc = "run" /\ streams'[1].response # NoResponse) =>
       hosts' = hosts /\ failure' = failure
  /\ (pc # "done" /\ pc' = "done") => hosts' = hosts /\ failure' = failure

\* C13: the ordered host list of a Replicas changes only by the removal of
\* its head, and only in the step in which a mutating request sent to that
\* head raised a transport error; a GET that raises a transport error sets
\* the failure timestamp of its host and leaves the list as it is; a step
\* that gives a call its response, successful or not, changes neither the
\* list nor any failure timestamp.
C13_Frame == [][C13_Step]_vars

\* A GET to B has just raised a transport error: B is marked and both hosts
\* are still in the list.
C13_Witness ==
  /\ kind = "call" /\ args.method = "GET" /\ pc = "select"
  /\ args.failures = 1 /\ args.host = "B"
  /\ failure["B"] # 0 /\ failure["A"] = 0
  /\ hosts = HostList

\* C14: when several threads call a mutating method of one Replicas and
\* their requests to the same head fail, only that head is removed: every
\* host that is no longer in the ordered list is one to which a request
\* failed.
C14_Original == \A h \in Removed : failure[h] # 0

C15_Step ==
  (pc = "run" /\ attempt = 2 /\ received' = Exc("socket.error")) =>
    /\ queue' = queue
    /\ streams[idx].resource \notin Queued(queue')
    /\ conns' = conns
    /\ streams' = streams
    /\ ~streams'[idx].pending /\ streams'[idx].sends = 1
    /\ kind # "call" =>
         /\ pc' = "done"
         /\ result' = [responses |-> <<>>, error |-> "socket.error"]

\* C15: when the stage-2 receive raises a socket.error whose errno is not
\* ECONNRESET, unicast and broadcast end with that error, the request is
\* not sent again, and no queue changes: the connection is not put back.
C15_ErrorPropagates == [][C15_Step]_vars

\* A broadcast to A and B has ended with the socket.error of B's receive,
\* after A's connection was put back; B's connection is in no queue.
C15_Witness ==
  /\ kind = "broadcast" /\ pc = "done" /\ result.error = "socket.error"
  /\ received = Exc("socket.error")
  /\ attempt = 2 /\ idx = 2 /\ limit > 0
  /\ streams[1].stage = 2 /\ streams[1].resource \in Range(queue[streams[1].host])
  /\ streams[2].stage = 1 /\ streams[2].sends = 1
  /\ streams[2].resource \notin Queued(queue)

Read == kind = "call" /\ args.method = "GET"

C16_State ==
  (Read /\ pc = "run") => failure[streams[1].host] = 0
C16_Step ==
  /\ \A h \in Hosts : failure[h] # 0 => failure'[h] # 0
  /\ (Read' /\ pc = "select" /\ pc' = "run") =>
       /\ failure[streams'[1].host] = 0
       /\ \A h \in Hosts : failure[h] # 0 => ~(ENABLED (CallSelect /\ streams'[1].host = h))
  /\ \A h \in Hosts :
       (failure[h] = 0 /\ failure'[h] # 0) =>
         /\ kind = "call" /\ pc = "run" /\ pc' = "select"
         /\ h = streams[1].host
         /\ streams' = streams
         /\ streams[1].response = NoResponse

\* C16: a failure timestamp that a transport error has set is never reset,
\* and no later GET of call goes to its host, whether or not the host is
\* still in the ordered list and whatever idle connections it holds; a
\* response with an HTTP error status sets no failure timestamp.
C16_FailedNeverRead == []C16_State /\ [][C16_Step]_vars

\* A GET to A failed and a later POST to A, still the head, left A with an
\* idle connection; B has none, and the GET now running went to B.
C16_Witness ==
  /\ Read /\ pc = "run" /\ streams[1].host = "B"
  /\ failure["A"] # 0 /\ failure["B"] = 0
  /\ hosts = HostList
  /\ Len(queue["A"]) = 1 /\ queue["B"] = <<>>

\* C17: the connection of a pipeline that has yielded its final response is
\* idle in the queue of its host or has been closed: no open connection is
\* left outside the pool, after a resend and after a release onto a full
\* queue (or one of limit 0) as well.
C17_Original ==
  \A i \in 1..Len(streams) :
    streams[i].stage = 3 =>
      \/ streams[i].resource \in Range(queue[streams[i].host])
      \/ conns[streams[i].resource].state = "closed"

\* C18: multicast sends the request to the hosts of the combination it
\* selected and to no other, for every batch of keys, the empty one too: as
\* many requests go out as the selected combination has hosts, and each goes
\* to a host of it.
C18_Original ==
  kind = "multicast" =>
    /\ Len(streams) = Cardinality(args.combo)
    /\ \A i \in 1..Len(streams) :
         /\ streams[i].host \in args.combo
         /\ streams[i].sends > 0 => conns[streams[i].resource].host \in args.combo

\* C19: with one caller at a time, every host that has been removed from
\* the ordered list has a nonzero failure timestamp; the choice of a GET can
\* therefore not return a removed host, and a GET in progress is on its way
\* to a host that is still in the list.
C19_ReadsAmongRemaining ==
  /\ \A h \in Removed : failure[h] # 0
  /\ Target("GET") \cap Removed = {}
  /\ (Read /\ pc = "run") => streams[1].host \in Range(hosts)

\* A write to A failed and removed it; the GET now running went to B, the
\* one host left in the list.
C19_Witness ==
  /\ Read /\ pc = "run" /\ streams[1].host = "B" /\ streams[1].stage = 1
  /\ hosts = <<"B">> /\ Removed = {"A"}
  /\ failure["A"] # 0 /\ failure["B"] = 0

\* C20: every connection idle in the queue of host h is an open connection
\* to h; the connection a pipeline to h sends on, made for it or taken from
\* the queue of h, is a connection to h, and so is what the pipeline puts
\* back into the queue of h.
C20_OwnHost ==
  /\ \A h \in Hosts : \A c \in Range(queue[h]) :
       conns[c] = [state |-> "open", host |-> h]
  /\ \A i \in 1..Len(streams) :
       streams[i].resource # NoConn =>
         /\ conns[streams[i].resource].host = streams[i].host
         /\ \A h \in Hosts \ {streams[i].host} :
              streams[i].resource \notin Range(queue[h])

\* A broadcast to B and A on a pool that had an idle connection of each:
\* both pipelines took the connection of their host and put it back.
C20_Witness ==
  /\ kind = "broadcast" /\ pc = "done" /\ result.error = "none"
  /\ args.given = <<"B", "A">>
  /\ ~streams[1].fresh /\ ~streams[2].fresh
  /\ streams[1].resource \in Range(queue["B"])
  /\ streams[2].resource \in Range(queue["A"])
  /\ streams[1].sends = 1 /\ streams[2].sends = 1

====
